---- MODULE Spec2Model ----
(***************************************************************************)
(* RedisCache (src/src/infrastructure/cache/cacheService.ts, lines 82-249) *)
(* as a state machine: the connection life cycle (bounded retries, the     *)
(* periodic reconnection timer, the client's 'error' and 'connect'         *)
(* events, teardown) and the cache operations guarded by isAvailable; and   *)
(* the local cache, CacheService (src/src/index.ts, lines 192-329), a       *)
(* wrapper of node-cache.                                                  *)
(*                                                                         *)
(* The redis client and the Redis server are the environment: a call of    *)
(* client.connect() stays in flight for any time and then resolves or      *)
(* rejects, the client emits 'connect' and 'error', a command succeeds or  *)
(* throws.  Time is kept as the countdown of every pending timer, in       *)
(* milliseconds, advancing in steps of connectionRetryDelay.               *)
(***************************************************************************)
EXTENDS Integers, FiniteSets, Sequences

(***************************************************************************)
(* Program constants.                                                      *)
(***************************************************************************)
maxConnectionAttempts == 3
connectionRetryDelay == 5000
reconnectionInterval == 30000

\* reconnectionTimer = null
NoTimer == -1

\* the local cache: new NodeCache({stdTTL: 300, checkperiod: 600, useClones: false})
stdTTL == 300
\* the 3600 of `ttl ?? 3600` in the local set
localDefaultTtl == 3600
\* private readonly defaultTtl: number = 3600
defaultTtl == 3600
\* an entry that was not stored by SETEX has no expiry
NoExpiry == -1

(***************************************************************************)
(* Bounds of the model.                                                    *)
(***************************************************************************)
\* client.connect() calls in flight at once: a further one starts only after one
\* of them has settled
MaxInFlight == 2
\* saturation of the history counter attemptsSinceTick
AttemptCap == 4
\* number of distinct cache keys used by the callers
NumKeys == 1
\* saturation of the observed age of a local entry, in seconds
AgeCap == 1800

Step == connectionRetryDelay

Min(a, b) == IF a < b THEN a ELSE b

\* countdown values of a pending setTimeout(..., connectionRetryDelay)
RetryCountdowns == {n \in 0..connectionRetryDelay : n % Step = 0}
\* countdown values of the setInterval(..., reconnectionInterval)
IntervalCountdowns == {n \in 0..reconnectionInterval : n % Step = 0}

\* an attempt started while the server was reachable ("up") or not ("down")
Tags == {"up", "down"}

Keys == 1..NumKeys
\* values the callers store: "obj", an object of strings and numbers, and "user", a
\* User, whose createdAt and updatedAt are Date objects
Values == {"obj", "user"}
\* the values that are objects of strings and numbers
PlainValues == {"obj"}
\* every value that JSON.stringify writes as a text: the values above, null, and the
\* number 0 for the falsy values
Storable == Values \cup {"null", "zero"}
\* what the server holds under a key: a JSON text, or nothing
NoEntry == "(nil)"
\* a text under a key that is not JSON: written by another program
Corrupt == "<html>"
\* JSON.stringify(value): a Date is written as its ISO string
JSONstringify(v) ==
    CASE v = "null" -> "null"
      [] v = "zero" -> "0"
      [] v = "obj" -> "{obj}"
      [] v = "user" -> "{iso}"
\* JSON.parse(data): an ISO string stays a string, so "{iso}" gives "userOfStrings",
\* the User with strings for its dates; a text that is not JSON throws
JSONparse(data) ==
    CASE data = "null" -> "null"
      [] data = "0" -> "zero"
      [] data = "{obj}" -> "obj"
      [] data = "{iso}" -> "userOfStrings"
      [] OTHER -> "SyntaxError"
Texts == {JSONstringify(v) : v \in Storable}
\* no value was stored under a key by this instance
Unset == "unset"

VARIABLES
    \* fields of RedisCache
    isAvailable,         \* private isAvailable: boolean
    connectionAttempts,  \* private connectionAttempts: number
    reconnectionTimer,   \* private reconnectionTimer: countdown of the tracked interval, or NoTimer
    \* the event loop
    liveIntervals,       \* number of setInterval handles that were not cleared
    retryTimers,         \* bag of pending setTimeout(() => this.connect(), 5000): countdown -> count
    inFlight,            \* bag of client.connect() promises not yet settled: tag -> count
    \* the environment
    clientOpen,          \* this.client.isOpen
    reachable,           \* the Redis server accepts connections
    store,               \* the server's content: key -> text or NoEntry
    written,             \* key -> the value of the last set that succeeded, while the entry
                         \* it made is on the server; Unset otherwise
    expiry,              \* key -> the seconds given to SETEX with that entry; NoExpiry otherwise
    \* observation
    disconnectCalled,    \* disconnect() has run
    allFailed,           \* no attempt has resolved and no 'connect' was emitted so far
    ticked,              \* the interval callback has run at least once
    attemptsSinceTick,   \* client.connect() calls since construction or the last interval
                         \* callback, counted while allFailed and before any teardown
    lastOp,              \* the last cache operation: its name, result and number of client commands
    \* the local cache
    cache,               \* the NodeCache: key -> entry (value, seconds left) or Missing
    localIsAvailable,    \* private isAvailable of the local CacheService
    lastLocal,           \* the last operation on the local cache, observed
    lastSet,             \* key -> the last set of the key (its ttl argument, its age in
                         \* seconds), while no delete or flush followed; NoSet otherwise
    \* the application
    hc,                  \* the health check: where a running one stands, and what the last
                         \* one that returned saw and reported
    repo,                \* the repository: the user with the id under study, or NoUser
    other,               \* the repository holds a second user, whose email is OtherEmail
    ucache,              \* the server's entries under user:<id> and user:email:<email>
    allCache,            \* the server's entry under users:all
    calls                \* the calls of the user service that are under way, each at one
                         \* of its awaits

localVars == <<cache, localIsAvailable, lastLocal, lastSet>>
userVars == <<repo, other, ucache, allCache>>
appVars == <<hc, userVars, calls>>

vars == <<isAvailable, connectionAttempts, reconnectionTimer, liveIntervals, retryTimers,
          inFlight, clientOpen, reachable, store, written, expiry, disconnectCalled, allFailed, ticked,
          attemptsSinceTick, lastOp, localVars, appVars>>

redisVars == <<isAvailable, connectionAttempts, reconnectionTimer, liveIntervals, retryTimers,
               inFlight, clientOpen, reachable, store, written, expiry, disconnectCalled, allFailed,
               ticked, attemptsSinceTick, lastOp>>

connVars == <<isAvailable, connectionAttempts, reconnectionTimer, liveIntervals, retryTimers,
              inFlight, clientOpen>>
histVars == <<disconnectCalled, allFailed, ticked, attemptsSinceTick>>

(***************************************************************************)
(* The instance as a record, so that each method is a function from the    *)
(* state before the call to the state after it.                            *)
(***************************************************************************)
This ==
    [isAvailable |-> isAvailable,
     connectionAttempts |-> connectionAttempts,
     reconnectionTimer |-> reconnectionTimer,
     liveIntervals |-> liveIntervals,
     retryTimers |-> retryTimers,
     inFlight |-> inFlight,
     clientOpen |-> clientOpen]

Assign(s) ==
    /\ isAvailable' = s.isAvailable
    /\ connectionAttempts' = s.connectionAttempts
    /\ reconnectionTimer' = s.reconnectionTimer
    /\ liveIntervals' = s.liveIntervals
    /\ retryTimers' = s.retryTimers
    /\ inFlight' = s.inFlight
    /\ clientOpen' = s.clientOpen

NoRetries == [c \in RetryCountdowns |-> 0]
NoAttempts == [k \in Tags |-> 0]

RECURSIVE SumOver(_, _)
SumOver(f, S) ==
    IF S = {} THEN 0
    ELSE LET x == CHOOSE y \in S : TRUE IN f[x] + SumOver(f, S \ {x})

PendingRetries == SumOver(retryTimers, RetryCountdowns)
AttemptsInFlight == SumOver(inFlight, Tags)
TagOf(r) == IF r THEN "up" ELSE "down"

(***************************************************************************)
(* RedisCache, private methods.                                            *)
(***************************************************************************)
\* startReconnection() without its test of reconnectionTimer: every call arms a
\* further interval
startReconnection_NoGuard(s) ==
    [s EXCEPT !.reconnectionTimer = reconnectionInterval,
              !.liveIntervals = @ + 1]

\* startReconnection(): lines 128-138
startReconnection(s) ==
    IF s.reconnectionTimer = NoTimer
    THEN [s EXCEPT !.reconnectionTimer = reconnectionInterval,
                   !.liveIntervals = @ + 1]
    ELSE s

\* stopReconnectionTimer(): lines 140-145
stopReconnectionTimer(s) ==
    IF s.reconnectionTimer # NoTimer
    THEN [s EXCEPT !.reconnectionTimer = NoTimer,
                   !.liveIntervals = @ - 1]
    ELSE s

\* createRedisClient() + setupEventListeners(): a fresh client, not open, with the
\* same two listeners
createRedisClient(s) == [s EXCEPT !.clientOpen = FALSE]

\* connect() without its test of connectionAttempts: every call starts an attempt
connect_NoLimit(s, up) ==
    LET s1 == [s EXCEPT !.connectionAttempts = @ + 1]
        s2 == IF s1.clientOpen = FALSE THEN createRedisClient(s1) ELSE s1
    IN  [s2 EXCEPT !.inFlight[TagOf(up)] = @ + 1,
                   !.clientOpen = TRUE]

\* connect() up to its await: lines 147-163.  up: the server is reachable when
\* client.connect() is called.
connect(s, up) ==
    IF s.connectionAttempts >= maxConnectionAttempts
    THEN startReconnection(s)
    ELSE LET s1 == [s EXCEPT !.connectionAttempts = @ + 1]
             s2 == IF s1.clientOpen = FALSE THEN createRedisClient(s1) ELSE s1
         IN  [s2 EXCEPT !.inFlight[TagOf(up)] = @ + 1,
                        !.clientOpen = TRUE]

\* does connect() reach client.connect() from s
connectStartsAttempt(s) == s.connectionAttempts < maxConnectionAttempts

\* connect() after client.connect() resolved: lines 164-165
connectResolved(s) == [s EXCEPT !.isAvailable = TRUE]

\* connect()'s catch with <= for <: the last failure schedules a retry as well
connectRejected_OffByOne(s) ==
    LET s1 == [s EXCEPT !.isAvailable = FALSE]
    IN  IF s1.connectionAttempts <= maxConnectionAttempts
        THEN [s1 EXCEPT !.retryTimers[connectionRetryDelay] = @ + 1]
        ELSE startReconnection(s1)

\* connect()'s catch giving up after the last failure: no periodic reconnection
connectRejected_GiveUp(s) ==
    LET s1 == [s EXCEPT !.isAvailable = FALSE]
    IN  IF s1.connectionAttempts < maxConnectionAttempts
        THEN [s1 EXCEPT !.retryTimers[connectionRetryDelay] = @ + 1]
        ELSE s1

\* connect()'s catch without its setTimeout: a failure below the maximum schedules
\* nothing
connectRejected_NoRetry(s) ==
    LET s1 == [s EXCEPT !.isAvailable = FALSE]
    IN  IF s1.connectionAttempts < maxConnectionAttempts
        THEN s1
        ELSE startReconnection(s1)

\* connect() after client.connect() rejected: lines 166-179
connectRejected(s) ==
    LET s1 == [s EXCEPT !.isAvailable = FALSE]
    IN  IF s1.connectionAttempts < maxConnectionAttempts
        THEN [s1 EXCEPT !.retryTimers[connectionRetryDelay] = @ + 1]
        ELSE startReconnection(s1)

\* an 'error' listener that restarts the bounded retries instead of arming the
\* interval
onError_Retry(s) ==
    IF s.isAvailable
    THEN [s EXCEPT !.isAvailable = FALSE,
                   !.connectionAttempts = 0,
                   !.retryTimers[connectionRetryDelay] = @ + 1]
    ELSE s

\* an 'error' listener without its test of isAvailable
onError_NoTest(s) == startReconnection([s EXCEPT !.isAvailable = FALSE])

\* the 'error' listener: lines 112-118
onError(s) ==
    IF s.isAvailable
    THEN startReconnection([s EXCEPT !.isAvailable = FALSE])
    ELSE s

\* the 'connect' listener: lines 120-125
onConnect(s) ==
    stopReconnectionTimer([s EXCEPT !.isAvailable = TRUE, !.connectionAttempts = 0])

\* the setInterval callback: lines 130-136
intervalCallback(s, up) ==
    IF ~s.isAvailable
    THEN connect([s EXCEPT !.connectionAttempts = 0], up)
    ELSE s

\* disconnect(): lines 182-189
disconnect(s) ==
    [stopReconnectionTimer(s) EXCEPT !.clientOpen = FALSE]

(***************************************************************************)
(* The local cache: CacheService of src/src/index.ts, lines 192-329, over  *)
(* a NodeCache.  Time is in seconds and passes in steps of half the        *)
(* default time to live; NodeCache's periodic check (checkperiod: 600)     *)
(* runs at any moment between the operations.  With string keys the calls  *)
(* of NodeCache do not throw.                                              *)
(***************************************************************************)
TtlStep == localDefaultTtl \div 2

\* the ttl argument: undefined, or a number of seconds
NoTtl == -1
Ttls == {NoTtl, 0, stdTTL}

\* seconds left of an entry: t = 0 of NodeCache (never expires), and out of time
Forever == -1
Expired == -2
\* no entry under the key
Missing == [v |-> "undefined", t |-> Forever]
Undefined == "undefined"

\* what a call of the callback of getOrSet does: it resolves with a value, or throws
\* its error
ComputeError == "Error"
Outcomes == Values \cup {ComputeError}

NoSet == [set |-> FALSE, ttl |-> NoTtl, age |-> 0]
SetAt(ttl) == [set |-> TRUE, ttl |-> ttl, age |-> 0]
\* key: the key of a delete, 0 for the other operations
NoLocalOp == [op |-> "none", key |-> 0, result |-> "none", calls |-> 0, reads |-> 0, writes |-> 0]
LocalResult(op, k, r) == [op |-> op, key |-> k, result |-> r, calls |-> 0, reads |-> 0, writes |-> 0]

\* NodeCache._wrap(value, ttl): ttl 0 never expires, a ttl that is not given is stdTTL
wrap(v, ttl) ==
    [v |-> v,
     t |-> IF ttl = 0 THEN Forever
           ELSE IF ttl = NoTtl THEN (IF stdTTL = 0 THEN Forever ELSE stdTTL)
           ELSE ttl]

\* NodeCache._check(key, data): the entry is there and its time has not run out
live(e) == e # Missing /\ (e.t = Forever \/ e.t >= 0)

\* NodeCache.get and NodeCache.has delete an entry they find out of time
checked(e) == IF live(e) THEN e ELSE Missing

\* `ttl ?? 3600`: lines 244 and 34
localSetTtl(ttl) == IF ttl = NoTtl THEN localDefaultTtl ELSE ttl

\* get(key): lines 224-232
localGet(avail, e) ==
    IF ~avail THEN Undefined
    ELSE IF live(e) THEN e.v ELSE Undefined

\* set(key, value, ttl): lines 241-249; NodeCache.set returns true
localSet(avail) == IF ~avail THEN "false" ELSE "true"

\* delete(key): lines 256-264; NodeCache.del returns the number of deleted entries
localDelete(avail, e) ==
    IF ~avail THEN "0"
    ELSE IF e # Missing THEN "1" ELSE "0"

\* has(key): lines 271-279
localHas(avail, e) ==
    IF ~avail THEN "false"
    ELSE IF live(e) THEN "true" ELSE "false"

\* isHealthy(): lines 326-328
localIsHealthy(avail) == avail

\* getOrSet without its tests of isAvailable (as in cacheService.ts, lines 62-72,
\* but with the catch)
getOrSet_NoGuard(avail, e, o1, o2) ==
    IF localGet(avail, e) # Undefined
    THEN [result |-> localGet(avail, e), calls |-> 0, reads |-> 1, writes |-> 0]
    ELSE IF o1 # ComputeError
    THEN [result |-> o1, calls |-> 1, reads |-> 1, writes |-> 1]
    ELSE [result |-> o2, calls |-> 2, reads |-> 1, writes |-> 0]

\* getOrSet(key, callback, ttl): lines 288-309.  o1: what the callback does when it is
\* called, o2: what it does when called again.  reads and writes: the calls of
\* this.get and this.set.
getOrSet(avail, e, o1, o2) ==
    IF avail /\ localGet(avail, e) # Undefined
    THEN [result |-> localGet(avail, e), calls |-> 0, reads |-> 1, writes |-> 0]
    ELSE IF o1 # ComputeError
    THEN [result |-> o1, calls |-> 1,
          reads |-> IF avail THEN 1 ELSE 0, writes |-> IF avail THEN 1 ELSE 0]
    ELSE [result |-> o2, calls |-> 2, reads |-> IF avail THEN 1 ELSE 0, writes |-> 0]

LocalGet(k) ==
    /\ lastLocal' = LocalResult("get", 0, localGet(localIsAvailable, cache[k]))
    /\ cache' = IF localIsAvailable THEN [cache EXCEPT ![k] = checked(@)] ELSE cache
    /\ UNCHANGED <<localIsAvailable, lastSet, redisVars, appVars>>

LocalSet(k, v, ttl) ==
    /\ lastLocal' = LocalResult("set", 0, localSet(localIsAvailable))
    /\ cache' = IF localIsAvailable THEN [cache EXCEPT ![k] = wrap(v, localSetTtl(ttl))]
                ELSE cache
    /\ lastSet' = IF localIsAvailable THEN [lastSet EXCEPT ![k] = SetAt(ttl)] ELSE lastSet
    /\ UNCHANGED <<localIsAvailable, redisVars, appVars>>

LocalDelete(k) ==
    /\ lastLocal' = LocalResult("delete", k, localDelete(localIsAvailable, cache[k]))
    /\ cache' = IF localIsAvailable THEN [cache EXCEPT ![k] = Missing] ELSE cache
    /\ lastSet' = IF localIsAvailable THEN [lastSet EXCEPT ![k] = NoSet] ELSE lastSet
    /\ UNCHANGED <<localIsAvailable, redisVars, appVars>>

LocalHas(k) ==
    /\ lastLocal' = LocalResult("has", 0, localHas(localIsAvailable, cache[k]))
    /\ cache' = IF localIsAvailable THEN [cache EXCEPT ![k] = checked(@)] ELSE cache
    /\ UNCHANGED <<localIsAvailable, lastSet, redisVars, appVars>>

\* flush(): lines 314-321
LocalFlush ==
    /\ lastLocal' = LocalResult("flush", 0, "void")
    /\ cache' = IF localIsAvailable THEN [k \in Keys |-> Missing] ELSE cache
    /\ lastSet' = IF localIsAvailable THEN [k \in Keys |-> NoSet] ELSE lastSet
    /\ UNCHANGED <<localIsAvailable, redisVars, appVars>>

LocalGetOrSet(k, ttl, o1, o2) ==
    LET r == getOrSet(localIsAvailable, cache[k], o1, o2)
        \* this.set ran on an available cache
        stored == r.writes = 1 /\ localIsAvailable
        \* this.get ran on an available cache
        looked == r.reads = 1 /\ localIsAvailable
    IN  /\ lastLocal' = [op |-> "getOrSet", key |-> 0, result |-> r.result,
                         calls |-> r.calls, reads |-> r.reads, writes |-> r.writes]
        /\ cache' = IF stored THEN [cache EXCEPT ![k] = wrap(o1, localSetTtl(ttl))]
                    ELSE IF looked THEN [cache EXCEPT ![k] = checked(@)]
                    ELSE cache
        /\ lastSet' = IF stored THEN [lastSet EXCEPT ![k] = SetAt(ttl)] ELSE lastSet
        /\ UNCHANGED <<localIsAvailable, redisVars, appVars>>

\* the NodeCache emits 'error': lines 207-210
CacheErrorEvent ==
    /\ localIsAvailable' = FALSE
    /\ UNCHANGED <<cache, lastLocal, lastSet, redisVars, appVars>>

\* TtlStep seconds pass
Elapse ==
    /\ cache' = [k \in Keys |->
                    IF cache[k] = Missing \/ cache[k].t = Forever \/ cache[k].t = Expired
                    THEN cache[k]
                    ELSE [cache[k] EXCEPT !.t = IF @ - TtlStep < 0 THEN Expired ELSE @ - TtlStep]]
    /\ lastSet' = [k \in Keys |->
                      IF lastSet[k] = NoSet THEN NoSet
                      ELSE [lastSet[k] EXCEPT !.age = Min(@ + TtlStep, AgeCap)]]
    /\ UNCHANGED <<localIsAvailable, lastLocal, redisVars, appVars>>

\* NodeCache's periodic check deletes the entries that are out of time
Sweep ==
    /\ \E k \in Keys : cache[k] # checked(cache[k])
    /\ cache' = [k \in Keys |-> checked(cache[k])]
    /\ UNCHANGED <<localIsAvailable, lastLocal, lastSet, redisVars, appVars>>

\* the constructor: lines 197-217
LocalInit ==
    /\ cache = [k \in Keys |-> Missing]
    /\ localIsAvailable = TRUE
    /\ lastLocal = NoLocalOp
    /\ lastSet = [k \in Keys |-> NoSet]

LocalNext ==
    \/ \E k \in Keys : LocalGet(k)
    \/ \E k \in Keys, v \in Values, ttl \in Ttls : LocalSet(k, v, ttl)
    \/ \E k \in Keys : LocalDelete(k)
    \/ \E k \in Keys : LocalHas(k)
    \/ LocalFlush
    \/ \E k \in Keys, ttl \in Ttls, o1 \in Outcomes :
           \* a second call of the callback has an outcome of its own
           \E o2 \in IF o1 = ComputeError THEN Outcomes ELSE {o1} :
               LocalGetOrSet(k, ttl, o1, o2)
    \/ CacheErrorEvent
    \/ Elapse
    \/ Sweep

(***************************************************************************)
(* The health check: healthCheck of src/src/index.ts, lines 73-131, a set, *)
(* a get and a delete of one key, each awaited.  A result "throws" stands  *)
(* for a call that throws, which the catch of lines 119-130 reports.       *)
(***************************************************************************)
\* const testKey = 'health-check-test', const testValue = { test: 'ok' }
testKey == 1
testValue == "obj"

\* the values v for which !v holds
Falsy(v) == v \in {"null", "zero", "false"}

\* no health check has run
NoReport == [pc |-> "idle", setResult |-> "none", getValue |-> "none",
             status |-> "none", message |-> "none"]
Report(h, status, message) ==
    [h EXCEPT !.pc = "idle", !.status = status, !.message = message]
\* the catch: lines 119-130
Caught(h) == Report(h, "error", "error.message")

\* the health check without its test of the value that get returned
healthCheckAfterGet_NoTest(h, getValue) ==
    IF getValue = "throws" THEN Caught([h EXCEPT !.getValue = getValue])
    ELSE [h EXCEPT !.pc = "delete", !.getValue = getValue]

\* lines 76-91: a new check, after `await cacheService.set(testKey, testValue)`
healthCheckAfterSet(setResult) ==
    LET h == [NoReport EXCEPT !.setResult = setResult]
    IN  IF setResult = "throws" THEN Caught(h)
        ELSE IF Falsy(setResult)
        THEN Report(h, "error", "Failed to set test value in Redis")
        ELSE [h EXCEPT !.pc = "get"]

\* lines 93-105: after `await cacheService.get(testKey)`
healthCheckAfterGet(h, getValue) ==
    IF getValue = "throws" THEN Caught([h EXCEPT !.getValue = getValue])
    ELSE IF Falsy(getValue)
    THEN Report([h EXCEPT !.getValue = getValue], "error",
                "Failed to get test value from Redis")
    ELSE [h EXCEPT !.pc = "delete", !.getValue = getValue]

\* lines 107-118: after `await cacheService.delete(testKey)`
healthCheckAfterDelete(h, deleteResult) ==
    IF deleteResult = "throws" THEN Caught(h)
    ELSE Report(h, "ok", "Redis is working properly")

(***************************************************************************)
(* The user service: UserServiceImpl (src/src/application/services/        *)
(* UserServiceImpl.ts) over the repository and the cache.  One user, with  *)
(* the id of the calls, is followed; createUser adds a second user, whose  *)
(* id is new and whose email is OtherEmail.  A user is its name and its    *)
(* email.                                                                  *)
(***************************************************************************)
Names == {"n1", "n2"}
Emails == {"e1", "e2"}
OtherEmail == "e3"
AllEmails == Emails \cup {OtherEmail}
Users == [name : Names, email : AllEmails]
\* the user that createUser makes
NewUser(email) == [name |-> "n3", email |-> email]
\* null: no user
NoUser == [name |-> "null", email |-> "null"]
\* the error a call throws
Throws(message) == [name |-> "throws", email |-> message]
\* no entry under a key
Absent == [name |-> "(nil)", email |-> "(nil)"]
\* a field of UpdateUserDTO that is not supplied, and the empty string
NotSupplied == "undefined"
Empty == ""
\* the cache keys `user:${id}` and `user:email:${email}`
KeyById == "id"
KeyByEmail(email) == email
UserKeys == {KeyById} \cup {KeyByEmail(e) : e \in AllEmails}
\* what findAll() returns
ListOf(r, o) == [user |-> r, other |-> o]
NoList == [user |-> Absent, other |-> FALSE]

\* InMemoryUserRepository with the followed user in it
UserInit ==
    /\ repo = [name |-> "n1", email |-> "e1"]
    /\ other = FALSE
    /\ ucache = [k \in UserKeys |-> Absent]
    /\ allCache = NoList

\* a call that is not under way, and a call at one of its awaits with its locals
NoData == [name |-> NotSupplied, email |-> NotSupplied]
Idle == [pc |-> "idle", user |-> NoUser, userData |-> NoData]
At(pc, user, userData) == [pc |-> pc, user |-> user, userData |-> userData]
NoCalls == [reader |-> Idle, writer |-> Idle, creator |-> Idle]

AppInit == hc = NoReport /\ UserInit /\ calls = NoCalls

(***************************************************************************)
(* Initial state: the state after `new RedisCache(logger)`, whose          *)
(* constructor calls connect() on the fresh instance (lines 91-103).       *)
(***************************************************************************)
Fresh ==
    [isAvailable |-> FALSE,
     connectionAttempts |-> 0,
     reconnectionTimer |-> NoTimer,
     liveIntervals |-> 0,
     retryTimers |-> NoRetries,
     inFlight |-> NoAttempts,
     clientOpen |-> FALSE]

NoOp == [op |-> "none", result |-> "none", commands |-> 0]

\* the instance is s
Is(s) ==
    /\ isAvailable = s.isAvailable
    /\ connectionAttempts = s.connectionAttempts
    /\ reconnectionTimer = s.reconnectionTimer
    /\ liveIntervals = s.liveIntervals
    /\ retryTimers = s.retryTimers
    /\ inFlight = s.inFlight
    /\ clientOpen = s.clientOpen

\* nothing observed yet, no operation called yet
InitObserver ==
    /\ written = [k \in Keys |-> Unset]
    /\ expiry = [k \in Keys |-> NoExpiry]
    /\ disconnectCalled = FALSE
    /\ allFailed = TRUE
    /\ ticked = FALSE
    /\ attemptsSinceTick = 1
    /\ lastOp = NoOp

\* a server that is up or down and holds nothing
Init ==
    /\ reachable \in BOOLEAN
    /\ Is(connect(Fresh, reachable))
    /\ store = [k \in Keys |-> NoEntry]
    /\ InitObserver
    /\ LocalInit
    /\ AppInit

\* a server that is up and holds nothing
UpInit == Init /\ reachable = TRUE

\* the ttl that callers supply: 300 for the list of users (UserServiceImpl), and 0
SuppliedTtls == {0, 300}

\* a server that is up and holds what other programs wrote
StoreInit ==
    /\ reachable = TRUE
    /\ Is(connect(Fresh, reachable))
    /\ store \in [Keys -> {NoEntry, Corrupt}]
    /\ InitObserver
    /\ LocalInit
    /\ AppInit

(***************************************************************************)
(* The event loop: time and timers.                                        *)
(***************************************************************************)
Bump(n) == Min(n + 1, AttemptCap)
\* the attempt counter of the observer is kept only while it is read
Counted(n) == IF allFailed /\ ~disconnectCalled THEN n ELSE 0

\* a callback that reaches client.connect() runs when fewer than MaxInFlight calls
\* are in flight
RoomFor(s) == connectStartsAttempt(s) => AttemptsInFlight < MaxInFlight

\* Time advances by one step when no timer is due.
AdvanceTimeStep ==
    /\ retryTimers[0] = 0
    /\ reconnectionTimer # 0
    /\ retryTimers' = [c \in RetryCountdowns |->
                          IF c + Step \in RetryCountdowns THEN retryTimers[c + Step] ELSE 0]
    /\ reconnectionTimer' = IF reconnectionTimer = NoTimer THEN NoTimer
                            ELSE reconnectionTimer - Step
    /\ UNCHANGED <<isAvailable, connectionAttempts, liveIntervals, inFlight, clientOpen,
                   reachable, store, written, expiry, lastOp, localVars, appVars>>

\* A setTimeout(() => this.connect(), connectionRetryDelay) comes due: line 174.
RetryFiresStep ==
    /\ retryTimers[0] > 0
    /\ RoomFor(This)
    /\ Assign(connect([This EXCEPT !.retryTimers[0] = @ - 1], reachable))
    /\ UNCHANGED <<reachable, store, written, expiry, lastOp, localVars, appVars>>

\* The setInterval comes due: its callback runs and the interval is re-armed.
PeriodicFiresStep ==
    /\ reconnectionTimer = 0
    /\ ~isAvailable => AttemptsInFlight < MaxInFlight
    /\ Assign(intervalCallback([This EXCEPT !.reconnectionTimer = reconnectionInterval],
                               reachable))
    /\ UNCHANGED <<reachable, store, written, expiry, lastOp, localVars, appVars>>

(***************************************************************************)
(* The redis client.                                                       *)
(***************************************************************************)
\* client.connect() resolves: an attempt started while the server was reachable, or
\* any attempt now that it is.
AttemptResolveStep(k) ==
    /\ inFlight[k] > 0
    /\ k = "up" \/ reachable
    /\ Assign(connectResolved([This EXCEPT !.inFlight[k] = @ - 1]))
    /\ UNCHANGED <<reachable, store, written, expiry, lastOp, localVars, appVars>>

\* client.connect() rejects; the client is left open (the call was refused because
\* the socket was already opened) or closed.
AttemptRejectStep(k, open) ==
    /\ inFlight[k] > 0
    /\ k = "down"
    /\ Assign(connectRejected([This EXCEPT !.inFlight[k] = @ - 1, !.clientOpen = open]))
    /\ UNCHANGED <<reachable, store, written, expiry, lastOp, localVars, appVars>>

\* The client emits 'connect': the socket of an attempt in flight is connected.
ClientConnectStep ==
    /\ AttemptsInFlight > 0
    /\ reachable
    /\ Assign(onConnect(This))
    /\ UNCHANGED <<reachable, store, written, expiry, lastOp, localVars, appVars>>

\* The client emits 'error'.
ClientErrorStep ==
    /\ Assign(onError(This))
    /\ UNCHANGED <<reachable, store, written, expiry, lastOp, localVars, appVars>>

\* The server goes down or comes up.
ToggleReachableStep ==
    /\ reachable' = ~reachable
    /\ UNCHANGED <<connVars, store, written, expiry, lastOp, localVars, appVars>>

\* Teardown.
DisconnectStep ==
    /\ Assign(disconnect(This))
    /\ UNCHANGED <<reachable, store, written, expiry, lastOp, localVars, appVars>>

(***************************************************************************)
(* The observer: what a test harness records of each step.                 *)
(***************************************************************************)
ObserveNothing == UNCHANGED histVars

\* a call of connect() from a timeout
ObserveConnectCall ==
    /\ attemptsSinceTick' = IF connectStartsAttempt(This)
                            THEN Counted(Bump(attemptsSinceTick))
                            ELSE attemptsSinceTick
    /\ UNCHANGED <<disconnectCalled, allFailed, ticked>>

\* a run of the interval callback
ObserveTick ==
    /\ attemptsSinceTick' = IF ~isAvailable THEN Counted(1) ELSE 0
    /\ ticked' = TRUE
    /\ UNCHANGED <<disconnectCalled, allFailed>>

\* client.connect() resolved, or 'connect' was emitted
ObserveSuccess ==
    /\ allFailed' = FALSE
    /\ attemptsSinceTick' = 0
    /\ UNCHANGED <<disconnectCalled, ticked>>

\* disconnect() ran
ObserveTeardown ==
    /\ disconnectCalled' = TRUE
    /\ attemptsSinceTick' = 0
    /\ UNCHANGED <<allFailed, ticked>>

(***************************************************************************)
(* Cache operations: lines 191-244.  fails: the client command throws.     *)
(***************************************************************************)
Result(op, r, n) == [op |-> op, result |-> r, commands |-> n]

\* get(key) without its test of isAvailable
get_NoGuard(avail, data, fails) ==
    IF fails THEN Result("get", "null", 1)
    ELSE IF data = NoEntry THEN Result("get", "null", 1)
    ELSE IF JSONparse(data) = "SyntaxError" THEN Result("get", "null", 1)
    ELSE Result("get", JSONparse(data), 1)

\* get(key) without its try/catch: what the command or JSON.parse throws reaches the
\* caller
get_NoCatch(avail, data, fails) ==
    IF ~avail THEN Result("get", "null", 0)
    ELSE IF fails THEN Result("get", "throws", 1)
    ELSE IF data = NoEntry THEN Result("get", "null", 1)
    ELSE IF JSONparse(data) = "SyntaxError" THEN Result("get", "throws", 1)
    ELSE Result("get", JSONparse(data), 1)

\* get(key): lines 191-202.  `!data` holds of null, the answer for a key without an
\* entry (and of the empty text, which JSON.stringify does not write)
get(avail, data, fails) ==
    IF ~avail THEN Result("get", "null", 0)
    ELSE IF fails THEN Result("get", "null", 1)
    ELSE IF data = NoEntry THEN Result("get", "null", 1)
    ELSE IF JSONparse(data) = "SyntaxError" THEN Result("get", "null", 1)
    ELSE Result("get", JSONparse(data), 1)

\* set(key, value, ttl): lines 204-214
set(avail, fails) ==
    IF ~avail THEN Result("set", "false", 0)
    ELSE IF fails THEN Result("set", "false", 1)
    ELSE Result("set", "true", 1)

\* an expiry that is always the one the caller gave
setExpiry_AsGiven(ttl) == ttl

\* `const expiry = ttl || this.defaultTtl`: line 207
setExpiry(ttl) == IF ttl \in {NoTtl, 0} THEN defaultTtl ELSE ttl

\* delete(key): lines 216-225
delete(avail, fails) ==
    IF ~avail THEN Result("delete", "false", 0)
    ELSE IF fails THEN Result("delete", "false", 1)
    ELSE Result("delete", "true", 1)

\* has(key): lines 227-235
has(avail, data, fails) ==
    IF ~avail THEN Result("has", "false", 0)
    ELSE IF fails THEN Result("has", "false", 1)
    ELSE Result("has", IF data # NoEntry THEN "true" ELSE "false", 1)

\* flush() that returns without calling flushAll
flush_NoCommand(avail, fails) == Result("flush", "void", 0)

\* flush(): lines 237-244
flush(avail, fails) ==
    IF ~avail THEN Result("flush", "void", 0)
    ELSE Result("flush", "void", 1)

\* a catch block that takes the failed command for a lost connection
commandFailed_Reconnect(s) == onError(s)

\* the catch block of an operation (lines 198-201, 210-213, 221-224, 231-234,
\* 241-243): it logs and answers the fallback, the instance is as before
commandFailed(s) == s

\* the instance after an operation whose try block threw or not
AfterOp(s, threw) == IF threw THEN commandFailed(s) ELSE s

\* a command that was issued and did not throw took effect on the server
Effective(r, fails) == r.commands > 0 /\ ~fails

\* JSON.parse of the payload throws
Unparseable(data) == data # NoEntry /\ JSONparse(data) = "SyntaxError"

\* a call of get, set or delete by any caller
GetCall(k, fails) ==
    /\ lastOp' = get(isAvailable, store[k], fails)
    /\ Assign(AfterOp(This, isAvailable /\ (fails \/ Unparseable(store[k]))))
    /\ UNCHANGED <<reachable, store, written, expiry, histVars, localVars>>

\* set(key, value, ttl); ttl = NoTtl: the caller omits it
SetExCall(k, v, ttl, fails) ==
    /\ lastOp' = set(isAvailable, fails)
    /\ Assign(AfterOp(This, isAvailable /\ fails))
    /\ store' = IF Effective(lastOp', fails) THEN [store EXCEPT ![k] = JSONstringify(v)]
                ELSE store
    /\ written' = IF Effective(lastOp', fails) THEN [written EXCEPT ![k] = v] ELSE written
    /\ expiry' = IF Effective(lastOp', fails) THEN [expiry EXCEPT ![k] = setExpiry(ttl)]
                 ELSE expiry
    /\ UNCHANGED <<reachable, histVars, localVars>>

\* set(key, value)
SetCall(k, v, fails) == SetExCall(k, v, NoTtl, fails)

DeleteCall(k, fails) ==
    /\ lastOp' = delete(isAvailable, fails)
    /\ Assign(AfterOp(This, isAvailable /\ fails))
    /\ store' = IF Effective(lastOp', fails) THEN [store EXCEPT ![k] = NoEntry] ELSE store
    /\ written' = IF Effective(lastOp', fails) THEN [written EXCEPT ![k] = Unset]
                  ELSE written
    /\ expiry' = IF Effective(lastOp', fails) THEN [expiry EXCEPT ![k] = NoExpiry]
                 ELSE expiry
    /\ UNCHANGED <<reachable, histVars, localVars>>

\* the calls by callers other than the health check
Get(k, fails) == GetCall(k, fails) /\ UNCHANGED appVars
Set(k, v, fails) == SetCall(k, v, fails) /\ UNCHANGED appVars
SetEx(k, v, ttl, fails) == SetExCall(k, v, ttl, fails) /\ UNCHANGED appVars
Delete(k, fails) == DeleteCall(k, fails) /\ UNCHANGED appVars

Has(k, fails) ==
    /\ lastOp' = has(isAvailable, store[k], fails)
    /\ Assign(AfterOp(This, isAvailable /\ fails))
    /\ UNCHANGED <<reachable, store, written, expiry, histVars, localVars, appVars>>

Flush(fails) ==
    /\ lastOp' = flush(isAvailable, fails)
    /\ Assign(AfterOp(This, isAvailable /\ fails))
    /\ store' = IF Effective(lastOp', fails) THEN [k \in Keys |-> NoEntry] ELSE store
    /\ written' = IF Effective(lastOp', fails) THEN [k \in Keys |-> Unset] ELSE written
    /\ expiry' = IF Effective(lastOp', fails) THEN [k \in Keys |-> NoExpiry] ELSE expiry
    /\ UNCHANGED <<reachable, histVars, localVars, appVars>>

\* The server drops an entry stored by SETEX: its time to live has run out.
ServerExpires(k) ==
    /\ written[k] # Unset
    /\ store' = [store EXCEPT ![k] = NoEntry]
    /\ written' = [written EXCEPT ![k] = Unset]
    /\ expiry' = [expiry EXCEPT ![k] = NoExpiry]
    /\ UNCHANGED <<connVars, reachable, histVars, lastOp, localVars, appVars>>

(***************************************************************************)
(* UserServiceImpl.  w: the repository and the user entries of the cache   *)
(* before the call; the answer: w after it and the result.  fg, fs, fd:    *)
(* the get, the set, the deletes of the call fail.                         *)
(***************************************************************************)
World == [repo |-> repo, other |-> other, c |-> ucache, all |-> allCache]
Answer(w, result) == [w |-> w, result |-> result]

\* a cache that answers with its entry whether it is available or not
Hit_EntryExists(avail, e, fg) == e \notin {Absent, NoList}

\* `if (cachedUser)` after cacheService.get: the entry, when get answers a value
Hit(avail, e, fg) ==
    get(avail, IF e \in {Absent, NoList} THEN NoEntry ELSE JSONstringify("user"), fg).result
        # "null"
\* cacheService.set and cacheService.delete took effect
Stored(avail, fs) == Effective(set(avail, fs), fs)
Deleted(avail, fd) == Effective(delete(avail, fd), fd)

\* userRepository.findByEmail(email)
findByEmail(w, email) ==
    IF w.repo # NoUser /\ w.repo.email = email THEN w.repo
    ELSE IF w.other /\ email = OtherEmail THEN NewUser(OtherEmail)
    ELSE NoUser

\* `if (props.name)`, `if (props.email)`, `if (userData.email)`
Truthy(s) == s \notin {NotSupplied, Empty}

\* an update that takes the email only
update_EmailOnly(u, props) ==
    [name |-> u.name,
     email |-> IF Truthy(props.email) THEN props.email ELSE u.email]

\* UserEntity.update(props): User.ts, lines 42-46
update(u, props) ==
    [name |-> IF Truthy(props.name) THEN props.name ELSE u.name,
     email |-> IF Truthy(props.email) THEN props.email ELSE u.email]

\* getUserById(id): lines 99-121
getUserById(w, avail, fg, fs) ==
    IF Hit(avail, w.c[KeyById], fg) THEN Answer(w, w.c[KeyById])
    ELSE IF w.repo = NoUser THEN Answer(w, NoUser)
    ELSE Answer(IF Stored(avail, fs) THEN [w EXCEPT !.c[KeyById] = w.repo] ELSE w, w.repo)

\* getUserByEmail(email): lines 123-145
getUserByEmail(w, avail, email, fg, fs) ==
    LET k == KeyByEmail(email)
        user == findByEmail(w, email)
    IN  IF Hit(avail, w.c[k], fg) THEN Answer(w, w.c[k])
        ELSE IF user = NoUser THEN Answer(w, NoUser)
        ELSE Answer(IF Stored(avail, fs) THEN [w EXCEPT !.c[k] = user] ELSE w, user)

\* getAllUsers(): lines 147-165
getAllUsers(w, avail, fg, fs) ==
    LET users == ListOf(w.repo, w.other)
    IN  IF Hit(avail, w.all, fg) THEN Answer(w, w.all)
        ELSE Answer(IF Stored(avail, fs) THEN [w EXCEPT !.all = users] ELSE w, users)

\* createUser(userData): lines 17-37; the new user has a new id
createUser(w, avail, email, fd) ==
    IF findByEmail(w, email) # NoUser
    THEN Answer(w, Throws("User with this email already exists"))
    ELSE LET w1 == [w EXCEPT !.other = TRUE]
         IN  Answer(IF Deleted(avail, fd) THEN [w1 EXCEPT !.all = NoList] ELSE w1,
                    NewUser(email))

\* the invalidation of updateUser: lines 70-77 and 86-93.  before, after: the email
\* of `user` before the call and the one read at line 75 or 91
invalidateUpdated(w, avail, userData, userEmail, fd) ==
    IF ~Deleted(avail, fd) THEN w
    ELSE LET keys == {KeyById} \cup
                     (IF Truthy(userData.email)
                      THEN {KeyByEmail(userData.email), KeyByEmail(userEmail)}
                      ELSE {})
         IN  [w EXCEPT !.c = [k \in UserKeys |-> IF k \in keys THEN Absent ELSE w.c[k]],
                       !.all = NoList]

\* updateUser(id, userData): lines 39-97.  entity: the repository hands out a
\* UserEntity (InMemoryUserRepository) and not a plain object (JsonUserRepository).
updateUser(w, avail, entity, userData, fd) ==
    LET user == w.repo
        updated == update(user, userData)
    IN  IF user = NoUser THEN Answer(w, NoUser)
        ELSE IF /\ Truthy(userData.email)
                /\ userData.email # user.email
                /\ findByEmail(w, userData.email) # NoUser
        THEN Answer(w, Throws("Email is already taken"))
        ELSE IF ~entity
        \* lines 55-81: userEntity is a copy, `user` keeps the email it had
        THEN Answer(invalidateUpdated([w EXCEPT !.repo = updated], avail, userData,
                                      user.email, fd),
                    updated)
        \* lines 83-96: user.update(userData) changes `user` itself
        ELSE Answer(invalidateUpdated([w EXCEPT !.repo = updated], avail, userData,
                                      updated.email, fd),
                    updated)

\* deleteUser(id): lines 167-184
deleteUser(w, avail, fd) ==
    LET user == w.repo
        keys == {KeyById, KeyByEmail(user.email)}
        w1 == [w EXCEPT !.repo = NoUser]
    IN  IF user = NoUser THEN Answer(w, FALSE)
        ELSE Answer(IF Deleted(avail, fd)
                    THEN [w1 EXCEPT !.c = [k \in UserKeys |->
                                              IF k \in keys THEN Absent ELSE w.c[k]],
                                    !.all = NoList]
                    ELSE w1,
                    TRUE)

(***************************************************************************)
(* The user service without a cache: UserServiceImpl of                    *)
(* src/src/application/dtos/UserDto.ts, lines 61-166.                      *)
(***************************************************************************)
plainGetUserById(w) == Answer(w, w.repo)
plainGetUserByEmail(w, email) == Answer(w, findByEmail(w, email))
plainGetAllUsers(w) == Answer(w, ListOf(w.repo, w.other))
plainCreateUser(w, email) ==
    IF findByEmail(w, email) # NoUser
    THEN Answer(w, Throws("User with this email already exists"))
    ELSE Answer([w EXCEPT !.other = TRUE], NewUser(email))
plainUpdateUser(w, userData) ==
    IF w.repo = NoUser THEN Answer(w, NoUser)
    ELSE IF /\ Truthy(userData.email)
            /\ userData.email # w.repo.email
            /\ findByEmail(w, userData.email) # NoUser
    THEN Answer(w, Throws("Email is already taken"))
    ELSE Answer([w EXCEPT !.repo = update(w.repo, userData)], update(w.repo, userData))
plainDeleteUser(w) ==
    IF w.repo = NoUser THEN Answer(w, FALSE)
    ELSE Answer([w EXCEPT !.repo = NoUser], TRUE)

\* the calls
Becomes(a) ==
    /\ repo' = a.w.repo
    /\ other' = a.w.other
    /\ ucache' = a.w.c
    /\ allCache' = a.w.all
    /\ UNCHANGED <<redisVars, localVars, hc, calls>>

UserDatas == [name : Names \cup {NotSupplied, Empty},
              email : Emails \cup {OtherEmail, NotSupplied, Empty}]

GetUserById(fg, fs) == Becomes(getUserById(World, isAvailable, fg, fs))
GetUserByEmail(email, fg, fs) == Becomes(getUserByEmail(World, isAvailable, email, fg, fs))
GetAllUsers(fg, fs) == Becomes(getAllUsers(World, isAvailable, fg, fs))
\* with the email of the second user, or an email that is taken
CreateUser(email, fd) ==
    /\ email = OtherEmail \/ findByEmail(World, email) # NoUser
    /\ Becomes(createUser(World, isAvailable, email, fd))
UpdateUser(entity, userData, fd) ==
    Becomes(updateUser(World, isAvailable, entity, userData, fd))
DeleteUser(fd) == Becomes(deleteUser(World, isAvailable, fd))

\* the server drops a user entry: its time to live has run out
UserEntryExpires(k) ==
    /\ ucache[k] # Absent
    /\ ucache' = [ucache EXCEPT ![k] = Absent]
    /\ UNCHANGED <<redisVars, localVars, hc, calls, repo, other, allCache>>

ListExpires ==
    /\ allCache # NoList
    /\ allCache' = NoList
    /\ UNCHANGED <<redisVars, localVars, hc, calls, repo, other, ucache>>

(***************************************************************************)
(* The calls of the user service over JsonUserRepository, from await to    *)
(* await: every findById, findByEmail, save, update and delete of that     *)
(* repository reads or writes the file and hands out plain objects, so     *)
(* another call runs between any two of them.  One getUserById, one        *)
(* updateUser or deleteUser and one createUser are under way at a time;    *)
(* the cache is available when a call starts and no command fails.         *)
(***************************************************************************)
Moves(who, to) ==
    /\ calls' = [calls EXCEPT ![who] = to]
    /\ UNCHANGED <<redisVars, localVars, hc>>

\* getUserById, lines 101-108: cacheService.get
GetUserByIdGets ==
    /\ calls.reader.pc = "idle"
    /\ isAvailable
    /\ ~Hit(isAvailable, ucache[KeyById], FALSE)
    /\ Moves("reader", At("findById", NoUser, NoData))
    /\ UNCHANGED userVars

\* lines 110-115: userRepository.findById
GetUserByIdFinds ==
    /\ calls.reader.pc = "findById"
    /\ Moves("reader", IF repo = NoUser THEN Idle ELSE At("set", repo, NoData))
    /\ UNCHANGED userVars

\* lines 117-120: cacheService.set(cacheKey, user, 3600)
GetUserByIdSets ==
    /\ calls.reader.pc = "set"
    /\ ucache' = IF Stored(isAvailable, FALSE)
                 THEN [ucache EXCEPT ![KeyById] = calls.reader.user]
                 ELSE ucache
    /\ Moves("reader", Idle)
    /\ UNCHANGED <<repo, other, allCache>>

\* updateUser, lines 40-45: userRepository.findById
UpdateUserFinds(userData) ==
    /\ calls.writer.pc = "idle"
    /\ isAvailable
    /\ repo # NoUser
    /\ Moves("writer", At("check", repo, userData))
    /\ UNCHANGED userVars

\* lines 47-53: userRepository.findByEmail, when an email that differs is supplied
UpdateUserChecks ==
    LET c == calls.writer
    IN  /\ c.pc = "check"
        /\ Moves("writer",
                 IF /\ Truthy(c.userData.email)
                    /\ c.userData.email # c.user.email
                    /\ findByEmail(World, c.userData.email) # NoUser
                 THEN Idle
                 ELSE [c EXCEPT !.pc = "update"])
        /\ UNCHANGED userVars

\* lines 55-67: userRepository.update(userEntity) with the user that findById gave,
\* updated; JsonUserRepository.update writes when it finds the id
UpdateUserUpdates ==
    LET c == calls.writer
    IN  /\ c.pc = "update"
        /\ repo' = IF repo = NoUser THEN repo ELSE update(c.user, c.userData)
        /\ Moves("writer", [c EXCEPT !.pc = "delete"])
        /\ UNCHANGED <<other, ucache, allCache>>

\* lines 69-77: the deletes of user:<id>, the user:email keys and users:all
UpdateUserDeletes ==
    LET c == calls.writer
        w == invalidateUpdated(World, isAvailable, c.userData, c.user.email, FALSE)
    IN  /\ c.pc = "delete"
        /\ ucache' = w.c
        /\ allCache' = w.all
        /\ Moves("writer", Idle)
        /\ UNCHANGED <<repo, other>>

\* deleteUser, lines 168-173: userRepository.findById
DeleteUserFinds ==
    /\ calls.writer.pc = "idle"
    /\ isAvailable
    /\ repo # NoUser
    /\ Moves("writer", At("remove", repo, NoData))
    /\ UNCHANGED userVars

\* line 175: userRepository.delete(id)
DeleteUserRemoves ==
    /\ calls.writer.pc = "remove"
    /\ repo' = NoUser
    /\ Moves("writer", [calls.writer EXCEPT !.pc = "invalidate"])
    /\ UNCHANGED <<other, ucache, allCache>>

\* lines 177-180: the deletes of user:<id>, user:email:<email> and users:all
DeleteUserInvalidates ==
    LET c == calls.writer
        keys == {KeyById, KeyByEmail(c.user.email)}
    IN  /\ c.pc = "invalidate"
        /\ ucache' = IF Deleted(isAvailable, FALSE)
                     THEN [k \in UserKeys |-> IF k \in keys THEN Absent ELSE ucache[k]]
                     ELSE ucache
        /\ allCache' = IF Deleted(isAvailable, FALSE) THEN NoList ELSE allCache
        /\ Moves("writer", Idle)
        /\ UNCHANGED <<repo, other>>

\* createUser with the email OtherEmail, lines 18-23: userRepository.findByEmail
CreateUserFinds ==
    /\ calls.creator.pc = "idle"
    /\ isAvailable
    /\ findByEmail(World, OtherEmail) = NoUser
    /\ Moves("creator", At("save", NoUser, NoData))
    /\ UNCHANGED userVars

\* lines 25-36: userRepository.save(user), and the delete of users:all
CreateUserSaves ==
    /\ calls.creator.pc = "save"
    /\ other' = TRUE
    /\ allCache' = IF Deleted(isAvailable, FALSE) THEN NoList ELSE allCache
    /\ Moves("creator", Idle)
    /\ UNCHANGED <<repo, ucache>>

(***************************************************************************)
(* The steps of a health check; one check runs at a time.                  *)
(***************************************************************************)
HcSet(fails) ==
    /\ hc.pc = "idle"
    /\ SetCall(testKey, testValue, fails)
    /\ hc' = healthCheckAfterSet(lastOp'.result)
    /\ UNCHANGED <<userVars, calls>>

HcGet(fails) ==
    /\ hc.pc = "get"
    /\ GetCall(testKey, fails)
    /\ hc' = healthCheckAfterGet(hc, lastOp'.result)
    /\ UNCHANGED <<userVars, calls>>

HcDelete(fails) ==
    /\ hc.pc = "delete"
    /\ DeleteCall(testKey, fails)
    /\ hc' = healthCheckAfterDelete(hc, lastOp'.result)
    /\ UNCHANGED <<userVars, calls>>

(***************************************************************************)
(* Specifications.                                                         *)
(***************************************************************************)
AdvanceTime == AdvanceTimeStep /\ ObserveNothing
RetryFires == RetryFiresStep /\ ObserveConnectCall
PeriodicFires == PeriodicFiresStep /\ ObserveTick
AttemptResolve(k) == AttemptResolveStep(k) /\ ObserveSuccess
AttemptReject(k, open) == AttemptRejectStep(k, open) /\ ObserveNothing
ClientConnectEvent == ClientConnectStep /\ ObserveSuccess
ClientErrorEvent == ClientErrorStep /\ ObserveNothing
ToggleReachable == ToggleReachableStep /\ ObserveNothing
Disconnect == DisconnectStep /\ ObserveTeardown

AttemptSettles ==
    \/ \E k \in Tags : AttemptResolve(k)
    \/ \E k \in Tags, open \in BOOLEAN : AttemptReject(k, open)

\* the connection life cycle, observed; no caller uses the cache
Next ==
    \/ AdvanceTime
    \/ RetryFires
    \/ PeriodicFires
    \/ \E k \in Tags : AttemptResolve(k)
    \/ \E k \in Tags, open \in BOOLEAN : AttemptReject(k, open)
    \/ ClientConnectEvent
    \/ ClientErrorEvent
    \/ ToggleReachable
    \/ Disconnect

\* a step of the connection life cycle that is not observed
Unobserved ==
    /\ \/ AdvanceTimeStep
       \/ RetryFiresStep
       \/ PeriodicFiresStep
       \/ \E k \in Tags : AttemptResolveStep(k)
       \/ \E k \in Tags, open \in BOOLEAN : AttemptRejectStep(k, open)
       \/ ClientConnectStep
       \/ ClientErrorStep
       \/ ToggleReachableStep
       \/ DisconnectStep
    /\ ObserveNothing

\* the connection life cycle, unobserved, with callers of the cache operations that
\* store plain objects, as the health check does (src/index.ts, lines 76-80)
OpsNext ==
    \/ Unobserved
    \/ \E k \in Keys, fails \in BOOLEAN : Get(k, fails)
    \/ \E k \in Keys, v \in PlainValues, fails \in BOOLEAN : Set(k, v, fails)
    \/ \E k \in Keys, fails \in BOOLEAN : Delete(k, fails)
    \/ \E k \in Keys, fails \in BOOLEAN : Has(k, fails)
    \/ \E fails \in BOOLEAN : Flush(fails)
    \/ \E k \in Keys : ServerExpires(k)

\* a step of the connection life cycle while the server stays up and the instance
\* is not torn down (nothing calls disconnect()): every attempt resolves
UnobservedUp ==
    /\ \/ AdvanceTimeStep
       \/ PeriodicFiresStep
       \/ AttemptResolveStep("up")
       \/ ClientConnectStep
       \/ ClientErrorStep
    /\ ObserveNothing

\* the callers of the cache operations that store Users as well (UserServiceImpl),
\* and any other value that can be stored, on a server that stays up
StoreNext ==
    \/ UnobservedUp
    \/ \E k \in Keys, fails \in BOOLEAN : Get(k, fails)
    \/ \E k \in Keys, v \in Storable, fails \in BOOLEAN : Set(k, v, fails)
    \/ \E k \in Keys, ttl \in SuppliedTtls, fails \in BOOLEAN : SetEx(k, "user", ttl, fails)
    \/ \E k \in Keys, fails \in BOOLEAN : Delete(k, fails)
    \/ \E k \in Keys, fails \in BOOLEAN : Has(k, fails)
    \/ \E fails \in BOOLEAN : Flush(fails)
    \/ \E k \in Keys : ServerExpires(k)

\* the health check on a server that stays up, while other callers read and flush
\* the cache and the entry of the test key runs out of time
HealthNext ==
    \/ UnobservedUp
    \/ \E fails \in BOOLEAN : HcSet(fails)
    \/ \E fails \in BOOLEAN : HcGet(fails)
    \/ \E fails \in BOOLEAN : HcDelete(fails)
    \/ \E k \in Keys, fails \in BOOLEAN : Get(k, fails)
    \/ \E fails \in BOOLEAN : Flush(fails)
    \/ ServerExpires(testKey)

\* the connection within one reconnection interval on a server that stays up: the
\* socket of the client connects, fails, and connects again
SocketEvents ==
    /\ \/ ClientConnectStep
       \/ ClientErrorStep
    /\ ObserveNothing

\* the callers of the user service
UserNext ==
    \/ SocketEvents
    \/ \E fg \in BOOLEAN, fs \in BOOLEAN : GetUserById(fg, fs)
    \/ \E email \in AllEmails, fg \in BOOLEAN, fs \in BOOLEAN : GetUserByEmail(email, fg, fs)
    \/ \E fg \in BOOLEAN, fs \in BOOLEAN : GetAllUsers(fg, fs)
    \/ \E email \in AllEmails, fd \in BOOLEAN : CreateUser(email, fd)
    \/ \E entity \in BOOLEAN, userData \in UserDatas, fd \in BOOLEAN :
           UpdateUser(entity, userData, fd)
    \/ \E fd \in BOOLEAN : DeleteUser(fd)
    \/ \E k \in UserKeys : UserEntryExpires(k)
    \/ ListExpires

\* the callers of the user service over a repository of plain objects
\* (JsonUserRepository) while no command of the cache fails and every update
\* supplies an email, so that updateUser deletes the entries of the user under all
\* its keys: the connection going down and coming back is all that happens to the
\* cache
OutageNext ==
    \/ SocketEvents
    \/ GetUserById(FALSE, FALSE)
    \/ \E email \in AllEmails : GetUserByEmail(email, FALSE, FALSE)
    \/ GetAllUsers(FALSE, FALSE)
    \/ \E email \in AllEmails : CreateUser(email, FALSE)
    \/ \E userData \in UserDatas :
           Truthy(userData.email) /\ UpdateUser(FALSE, userData, FALSE)
    \/ DeleteUser(FALSE)
    \/ \E k \in UserKeys : UserEntryExpires(k)
    \/ ListExpires

\* what the racing updateUser is given: another name, another email, the email
\* of createUser
RaceDatas ==
    {[name |-> "n2", email |-> NotSupplied],
     [name |-> NotSupplied, email |-> "e2"],
     [name |-> NotSupplied, email |-> OtherEmail]}

\* concurrent calls of the user service, each resumed at its awaits in any order,
\* once the cache is available
RaceNext ==
    \/ ClientConnectEvent
    \/ GetUserByIdGets
    \/ GetUserByIdFinds
    \/ GetUserByIdSets
    \/ \E userData \in RaceDatas : UpdateUserFinds(userData)
    \/ UpdateUserChecks
    \/ UpdateUserUpdates
    \/ UpdateUserDeletes
    \/ DeleteUserFinds
    \/ DeleteUserRemoves
    \/ DeleteUserInvalidates
    \/ CreateUserFinds
    \/ CreateUserSaves

Spec == Init /\ [][Next]_vars
OpsSpec == Init /\ [][OpsNext]_vars
StoreSpec == StoreInit /\ [][StoreNext]_vars
\* the local cache and its callers
LocalSpec == Init /\ [][LocalNext]_vars
HealthSpec == StoreInit /\ [][HealthNext]_vars
UserSpec == UpInit /\ [][UserNext]_vars
OutageSpec == UpInit /\ [][OutageNext]_vars
RaceSpec == UpInit /\ [][RaceNext]_vars

\* The event loop runs due timers, time passes, and every client.connect() settles.
Fairness ==
    /\ WF_vars(AdvanceTime)
    /\ WF_vars(RetryFires)
    /\ WF_vars(PeriodicFires)
    /\ WF_vars(AttemptSettles)

LiveSpec == Spec /\ Fairness

TypeOK ==
    /\ isAvailable \in BOOLEAN
    /\ connectionAttempts \in 0..maxConnectionAttempts
    /\ reconnectionTimer \in IntervalCountdowns \cup {NoTimer}
    /\ liveIntervals \in Nat
    /\ retryTimers \in [RetryCountdowns -> Nat]
    /\ inFlight \in [Tags -> 0..MaxInFlight]
    /\ clientOpen \in BOOLEAN
    /\ reachable \in BOOLEAN
    /\ store \in [Keys -> Texts \cup {NoEntry, Corrupt}]
    /\ written \in [Keys -> Storable \cup {Unset}]
    /\ expiry \in [Keys -> {NoExpiry, defaultTtl} \cup SuppliedTtls]
    /\ \A k \in Keys : (expiry[k] = NoExpiry) <=> (written[k] = Unset)
    /\ attemptsSinceTick \in 0..AttemptCap
    /\ lastOp.commands \in 0..1
    /\ \A k \in Keys :
          /\ cache[k].v \in Values \cup {Undefined}
          /\ cache[k].t \in {Forever, Expired} \cup 0..localDefaultTtl
          /\ lastSet[k].ttl \in Ttls
          /\ lastSet[k].age \in 0..AgeCap
    /\ localIsAvailable \in BOOLEAN
    /\ lastLocal.calls \in 0..2
    /\ hc.pc \in {"idle", "get", "delete"}
    /\ calls.reader.pc \in {"idle", "findById", "set"}
    /\ calls.writer.pc \in {"idle", "check", "update", "delete", "remove", "invalidate"}
    /\ calls.creator.pc \in {"idle", "save"}
    /\ \A who \in {"reader", "writer", "creator"} :
          /\ calls[who].user \in Users \cup {NoUser}
          /\ calls[who].userData \in UserDatas
    /\ hc.status \in {"none", "ok", "error"}
    /\ repo \in Users \cup {NoUser}
    /\ other \in BOOLEAN
    /\ ucache \in [UserKeys -> Users \cup {Absent, NewUser(OtherEmail)}]
    /\ allCache.user \in Users \cup {NoUser, Absent}

(***************************************************************************)
(* Claims.                                                                 *)
(***************************************************************************)
GetStep == \E k \in Keys, fails \in BOOLEAN : Get(k, fails)
SetStep == \E k \in Keys, v \in Values, fails \in BOOLEAN : Set(k, v, fails)
DeleteStep == \E k \in Keys, fails \in BOOLEAN : Delete(k, fails)
HasStep == \E k \in Keys, fails \in BOOLEAN : Has(k, fails)
FlushStep == \E fails \in BOOLEAN : Flush(fails)

\* C1: while isAvailable is false, get returns null, set, delete and has return
\* false, flush returns, and none of them issues a command on the client (so the
\* server's content is untouched).
C1_DegradedOperations ==
    [][~isAvailable =>
          /\ GetStep => lastOp' = Result("get", "null", 0)
          /\ SetStep => lastOp' = Result("set", "false", 0) /\ store' = store
          /\ DeleteStep => lastOp' = Result("delete", "false", 0) /\ store' = store
          /\ HasStep => lastOp' = Result("has", "false", 0)
          /\ FlushStep => lastOp' = Result("flush", "void", 0) /\ store' = store]_vars

\* the store holds an entry, the cache is unavailable with the interval armed, and
\* get answered null without a command
C1_Witness ==
    /\ ~isAvailable
    /\ reconnectionTimer # NoTimer
    /\ \E k \in Keys : store[k] # NoEntry
    /\ lastOp = Result("get", "null", 0)

\* from construction, every attempt so far failed, no interval callback yet
InitialPhase == allFailed /\ ~ticked /\ ~disconnectCalled
\* every attempt so far failed and the interval callback has run
PeriodicPhase == allFailed /\ ticked /\ ~disconnectCalled

\* C2: from construction with every attempt failing, at most 3 attempts are made,
\* one at a time, each failure before the third schedules one retry
\* connectionRetryDelay later and no interval; after the third failure the store is
\* unavailable, the interval is armed and no retry timeout is pending.
C2_BoundedRetries ==
    /\ [](InitialPhase =>
            /\ ~isAvailable
            /\ attemptsSinceTick <= maxConnectionAttempts
            /\ AttemptsInFlight + PendingRetries <= 1
            /\ (AttemptsInFlight + PendingRetries = 1) <=> (reconnectionTimer = NoTimer)
            /\ (AttemptsInFlight + PendingRetries = 0) => attemptsSinceTick = maxConnectionAttempts
            /\ attemptsSinceTick = maxConnectionAttempts => PendingRetries = 0)
    /\ [][InitialPhase /\ AttemptsInFlight' < AttemptsInFlight /\ allFailed'
            /\ attemptsSinceTick < maxConnectionAttempts
          => retryTimers' = [NoRetries EXCEPT ![connectionRetryDelay] = 1]]_vars

\* the third attempt has failed: interval armed, nothing else pending
C2_Witness ==
    /\ InitialPhase
    /\ attemptsSinceTick = maxConnectionAttempts
    /\ AttemptsInFlight = 0
    /\ PendingRetries = 0
    /\ reconnectionTimer # NoTimer
    /\ ~isAvailable

\* C3: in periodic mode with the server unreachable, exactly one connection
\* attempt is made per interval tick.
C3_OneAttemptPerTick == PeriodicPhase => attemptsSinceTick = 1

\* C4: if from some point on the server is reachable and disconnect is not called,
\* the store becomes available again.
C4_Recovery == []<>(~reachable \/ disconnectCalled \/ isAvailable)

\* the store is available after the interval callback had to run
C4_Witness ==
    /\ isAvailable
    /\ reachable
    /\ ticked
    /\ ~disconnectCalled
    /\ reconnectionTimer = NoTimer

\* C5: after disconnect() has run no connection attempt is started.
C5_NoAttemptAfterDisconnect ==
    [][disconnectCalled => AttemptsInFlight' <= AttemptsInFlight]_vars

\* C6: whenever isAvailable is true, connectionAttempts is 0.
C6_AttemptsResetWhenConnected == isAvailable => connectionAttempts = 0

\* C7: whenever isAvailable is true, reconnectionTimer is null.
C7_NoTimerWhenConnected == isAvailable => reconnectionTimer = NoTimer

\* C8: before teardown, the interval exists if and only if the store is not
\* connected and no bounded-retry sequence is running (no retry pending, no attempt
\* in flight).
C8_TimerIffExhausted ==
    ~disconnectCalled =>
        ((reconnectionTimer # NoTimer) <=>
            (~isAvailable /\ PendingRetries = 0 /\ AttemptsInFlight = 0))

\* C9: an 'error' event while isAvailable is true makes the store unavailable with
\* the interval armed in the same step, and starts neither an attempt nor a retry
\* timeout.
C9_ErrorWhileConnected ==
    [][isAvailable /\ ClientErrorEvent =>
          /\ ~isAvailable'
          /\ reconnectionTimer' # NoTimer
          /\ liveIntervals' = 1
          /\ inFlight' = inFlight
          /\ retryTimers' = retryTimers
          /\ connectionAttempts' = connectionAttempts]_vars

\* an armed interval with the counter below the maximum and no callback run yet:
\* only the 'error' listener leads here
C9_Witness ==
    /\ ~isAvailable
    /\ ~allFailed
    /\ ~ticked
    /\ ~disconnectCalled
    /\ reconnectionTimer = reconnectionInterval
    /\ connectionAttempts = 1
    /\ AttemptsInFlight = 0
    /\ PendingRetries = 0

\* C10: at most one interval timer is live at any time.
C10_AtMostOneInterval == liveIntervals <= 1

\* the interval is live again after a recovery, an 'error' and a callback
C10_Witness ==
    /\ liveIntervals = 1
    /\ ticked
    /\ ~allFailed
    /\ ~isAvailable
    /\ AttemptsInFlight > 0

\* C11: at most one connection attempt is in flight at any time: a connect request
\* from a retry timeout or an interval tick that arrives while an earlier
\* client.connect() has not settled starts no further one.
C11_SingleAttemptInFlight == AttemptsInFlight <= 1

\* an operation whose try block throws: the command fails, or JSON.parse does
FailedOpStep ==
    \/ \E k \in Keys : Get(k, TRUE) \/ (Unparseable(store[k]) /\ Get(k, FALSE))
    \/ \E k \in Keys, v \in Storable : Set(k, v, TRUE)
    \/ \E k \in Keys : Delete(k, TRUE)
    \/ \E k \in Keys : Has(k, TRUE)
    \/ Flush(TRUE)

\* C12: while isAvailable is true, an operation whose command fails, or a get whose
\* payload is not JSON, raises nothing: get returns null, set, delete and has return
\* false, flush returns.
C12_FailuresAreSwallowed ==
    [][isAvailable =>
          /\ \A k \in Keys :
                (Get(k, TRUE) \/ (Unparseable(store[k]) /\ Get(k, FALSE)))
                    => lastOp' = Result("get", "null", 1)
          /\ \A k \in Keys, v \in Storable :
                Set(k, v, TRUE) => lastOp' = Result("set", "false", 1)
          /\ \A k \in Keys : Delete(k, TRUE) => lastOp' = Result("delete", "false", 1)
          /\ \A k \in Keys : Has(k, TRUE) => lastOp' = Result("has", "false", 1)
          /\ Flush(TRUE) => lastOp' = Result("flush", "void", 1)]_vars

\* an available store answered null to a get of a key whose payload is not JSON
C12_Witness ==
    /\ isAvailable
    /\ \E k \in Keys : store[k] = Corrupt
    /\ lastOp = Result("get", "null", 1)

\* C13: an operation that fails while isAvailable is true leaves isAvailable,
\* connectionAttempts and reconnectionTimer as they were, and starts no timer and
\* no connection attempt.
C13_FailedOpKeepsConnection ==
    [][isAvailable /\ FailedOpStep => connVars' = connVars]_vars

\* a set failed on an available store, which is available still, with no timer
C13_Witness ==
    /\ isAvailable
    /\ reconnectionTimer = NoTimer
    /\ lastOp = Result("set", "false", 1)

\* C17: on an available store with the command succeeding, get(k) returns absent
\* while no set of k is in force, and the value of the last successful set of k
\* while that entry has not been deleted, flushed or expired.
C17_GetReturnsWhatWasSet ==
    [][isAvailable =>
          \A k \in Keys :
              Get(k, FALSE) =>
                  lastOp'.result = (IF written[k] = Unset THEN "null" ELSE written[k])]_vars

\* C14: getOrSet on an available local cache: if the key holds a value that is not
\* out of time, that value is returned and the callback is not called; otherwise the
\* callback is called exactly once, whatever it does, and when it resolves its value
\* is stored under the key and returned.
C14_GetOrSetComputesOnce ==
    [][\A k \in Keys, ttl \in Ttls, o1 \in Outcomes, o2 \in Outcomes :
          (localIsAvailable /\ LocalGetOrSet(k, ttl, o1, o2)) =>
              IF live(cache[k])
              THEN lastLocal'.result = cache[k].v /\ lastLocal'.calls = 0
              ELSE /\ lastLocal'.calls = 1
                   /\ o1 # ComputeError => lastLocal'.result = o1 /\ cache'[k].v = o1]_vars

\* C15: when the callback throws inside getOrSet, getOrSet throws that error: no
\* value is returned in its place and nothing is stored under the key.
C15_ComputeFailurePropagates ==
    [][\A k \in Keys, ttl \in Ttls, o2 \in Outcomes :
          (LocalGetOrSet(k, ttl, ComputeError, o2) /\ ~(localIsAvailable /\ live(cache[k]))) =>
              /\ lastLocal'.result = ComputeError
              /\ cache'[k] \in {cache[k], Missing}]_vars

\* C16: getOrSet while the local cache is unavailable calls neither this.get nor
\* this.set and leaves the cache as it is; it calls the callback and answers what the
\* callback answers: its value, after one call, when the callback resolves, and the
\* outcome of the second call that the catch makes when the first one throws.
C16_UnavailableGetOrSet ==
    [][\A k \in Keys, ttl \in Ttls, o1 \in Outcomes, o2 \in Outcomes :
          (~localIsAvailable /\ LocalGetOrSet(k, ttl, o1, o2)) =>
              /\ lastLocal'.reads = 0
              /\ lastLocal'.writes = 0
              /\ cache' = cache
              /\ lastLocal'.calls >= 1
              /\ o1 # ComputeError => lastLocal'.calls = 1 /\ lastLocal'.result = o1
              /\ o1 = ComputeError => lastLocal'.result = o2]_vars

\* the unavailable cache holds an entry, and getOrSet answered the callback's value
\* after one call, without a read or a write
C16_Witness ==
    /\ ~localIsAvailable
    /\ \E k \in Keys : cache[k] # Missing
    /\ lastLocal.op = "getOrSet"
    /\ lastLocal.result \in Values
    /\ lastLocal.calls = 1
    /\ lastLocal.reads = 0
    /\ lastLocal.writes = 0

\* C18: once more than ttl seconds have passed since set(k, v, ttl), with no later
\* set of k, get(k) returns absent and has(k) returns false, whether or not the
\* periodic check has run.
C18_NoExpiredRead ==
    [][\A k \in Keys :
          (lastSet[k].set /\ lastSet[k].ttl # NoTtl /\ lastSet[k].age > lastSet[k].ttl) =>
              /\ LocalGet(k) => lastLocal'.result = Undefined
              /\ LocalHas(k) => lastLocal'.result = "false"]_vars

\* C19: after the local set(k, v) without a ttl, get(k) returns v until 300 seconds
\* have passed and absent afterwards.
C19_LocalDefaultTtl ==
    [][\A k \in Keys :
          (localIsAvailable /\ lastSet[k].set /\ lastSet[k].ttl = NoTtl /\ LocalGet(k)) =>
              lastLocal'.result = (IF lastSet[k].age > stdTTL THEN Undefined ELSE cache[k].v)]_vars

\* C20: on the available local cache delete(k) leaves k absent, and a delete(k) that
\* follows a delete(k) reports what the first one reported.
C20_DeleteIdempotent ==
    [][\A k \in Keys :
          (localIsAvailable /\ LocalDelete(k)) =>
              /\ cache'[k] = Missing
              /\ (lastLocal.op = "delete" /\ lastLocal.key = k)
                     => lastLocal'.result = lastLocal.result]_vars

\* C21: on an available store, for every key whose entry, if any, was written by
\* set with a value that can be stored (null and 0 included), has(k) returns true
\* if and only if get(k) returns a value and not absent.
C21_HasIffGet ==
    isAvailable =>
        \A k \in Keys :
            store[k] # Corrupt =>
                ((has(isAvailable, store[k], FALSE).result = "true")
                    <=> (get(isAvailable, store[k], FALSE).result # "null"))

\* a key without an entry: get answers absent and has answers false, and only a set
\* of the key gives it an entry again
AbsentUntilSet ==
    \A k \in Keys :
        store[k] = NoEntry =>
            /\ \A fails \in BOOLEAN : Get(k, fails) => lastOp'.result = "null"
            /\ \A fails \in BOOLEAN : Has(k, fails) => lastOp'.result = "false"
            /\ store'[k] # NoEntry =>
                  \E v \in Storable, ttl \in SuppliedTtls \cup {NoTtl} : SetEx(k, v, ttl, FALSE)

LocalFlushClears ==
    [][(localIsAvailable /\ LocalFlush) => \A k \in Keys : cache'[k] = Missing]_vars

\* C23: isHealthy() of the local cache returns true in every reachable state.
C23_LocalAlwaysHealthy == localIsHealthy(localIsAvailable)

\* C24: a health check always returns a report; the report is "ok" exactly when set
\* returned true and get returned the test value, and "error" with a message
\* otherwise; a check whose set or get finds the cache unavailable reports "error".
C24_HealthCheckReport ==
    /\ [](hc.status \in {"none", "ok", "error"})
    /\ []((hc.pc = "idle" /\ hc.status # "none") =>
             /\ hc.status = "ok" <=> (hc.setResult = "true" /\ hc.getValue = testValue)
             /\ hc.status = "error" => hc.message # "none")
    /\ [][(~isAvailable /\ \E fails \in BOOLEAN : HcSet(fails) \/ HcGet(fails)) =>
             (hc'.pc = "idle" /\ hc'.status = "error")]_vars

\* a check reported "error" because get answered null after a set that succeeded
C24_Witness ==
    /\ hc.pc = "idle"
    /\ hc.status = "error"
    /\ hc.setResult = "true"
    /\ hc.getValue = "null"
    /\ hc.message = "Failed to get test value from Redis"

\* the same result and the same repository afterwards
SameOutcome(a, b) ==
    /\ a.result = b.result
    /\ a.w.repo = b.w.repo
    /\ a.w.other = b.w.other

\* C25: while RedisCache is unavailable every call of the user service returns the
\* result, throws the error and leaves the repository in the state of the same call
\* on the service without a cache; so a sequence of calls during an outage does
\* what it does without a cache.
C25_OutageAsNoCache ==
    ~isAvailable =>
        \A fg \in BOOLEAN, fs \in BOOLEAN :
            /\ SameOutcome(getUserById(World, isAvailable, fg, fs), plainGetUserById(World))
            /\ SameOutcome(getAllUsers(World, isAvailable, fg, fs), plainGetAllUsers(World))
            /\ SameOutcome(deleteUser(World, isAvailable, fs), plainDeleteUser(World))
            /\ \A email \in AllEmails :
                  SameOutcome(getUserByEmail(World, isAvailable, email, fg, fs),
                              plainGetUserByEmail(World, email))
            /\ \A email \in AllEmails :
                  (email = OtherEmail \/ findByEmail(World, email) # NoUser) =>
                      SameOutcome(createUser(World, isAvailable, email, fs),
                                  plainCreateUser(World, email))
            /\ \A entity \in BOOLEAN, userData \in UserDatas :
                  SameOutcome(updateUser(World, isAvailable, entity, userData, fs),
                              plainUpdateUser(World, userData))

\* an outage during which the user was changed or deleted: the server holds the
\* entry of user:<id> made before
C25_Witness ==
    /\ ~isAvailable
    /\ ucache[KeyById] # Absent
    /\ ucache[KeyById] # repo

\* C26: once deleteUser(id) has returned true (the repository holds no user of that
\* id any more), every getUserById(id) returns null, whatever was cached before.
C26_DeletedUserNotFound ==
    repo = NoUser =>
        \A fg \in BOOLEAN, fs \in BOOLEAN :
            getUserById(World, isAvailable, fg, fs).result = NoUser

\* the value of a field after an update that was given `supplied` for it
Expected(previous, supplied) == IF supplied = NotSupplied THEN previous ELSE supplied
ExpectedNonEmpty(previous, supplied) ==
    IF supplied \in {NotSupplied, Empty} THEN previous ELSE supplied

\* C27 as stated: updateUser on an existing user returns a user whose name and email
\* are the supplied fields, a field that is not supplied keeping its value.
C27_UpdateReturnsSupplied ==
    repo # NoUser =>
        \A entity \in BOOLEAN, userData \in UserDatas, fd \in BOOLEAN :
            LET a == updateUser(World, isAvailable, entity, userData, fd)
            IN  /\ a.result.name = Expected(repo.name, userData.name)
                /\ a.result.email = Expected(repo.email, userData.email)

\* C27, amended: when the supplied email belongs to another user, updateUser throws
\* 'Email is already taken' and changes nothing; otherwise it returns and stores a
\* user whose name and email are the supplied non-empty fields, a field that is
\* not supplied or empty keeping its value.
C27_UpdateReturnsSuppliedUnlessTaken ==
    repo # NoUser =>
        \A entity \in BOOLEAN, userData \in UserDatas, fd \in BOOLEAN :
            LET a == updateUser(World, isAvailable, entity, userData, fd)
            IN  IF other /\ userData.email = OtherEmail /\ repo.email # OtherEmail
                THEN /\ a.result = Throws("Email is already taken")
                     /\ a.w.repo = repo
                ELSE /\ a.result.name = ExpectedNonEmpty(repo.name, userData.name)
                     /\ a.result.email = ExpectedNonEmpty(repo.email, userData.email)
                     /\ a.w.repo = a.result

\* the user has been given another name and another email while a second user
\* exists
C27_Witness ==
    /\ repo = [name |-> "n2", email |-> "e2"]
    /\ other

\* C28: with the cache available and its commands succeeding, updateUser(id,
\* {email: e2}) on a user whose email is e1 # e2 leaves no entry under user:<id>,
\* user:email:<e1>, user:email:<e2> and users:all, and a following
\* getUserByEmail(e1) returns null.
C28_UpdateInvalidatesEmails ==
    (isAvailable /\ repo # NoUser) =>
        \A entity \in BOOLEAN, e2 \in Emails \ {repo.email} :
            LET e1 == repo.email
                a == updateUser(World, isAvailable, entity,
                                [name |-> NotSupplied, email |-> e2], FALSE)
            IN  /\ a.w.c[KeyById] = Absent
                /\ a.w.c[KeyByEmail(e1)] = Absent
                /\ a.w.c[KeyByEmail(e2)] = Absent
                /\ a.w.all = NoList
                /\ \A fg \in BOOLEAN, fs \in BOOLEAN :
                      getUserByEmail(a.w, isAvailable, e1, fg, fs).result = NoUser

\* C29: a set that succeeds stores the entry with the ttl the caller supplied, 0
\* included, and with the default of 3600 seconds when the caller supplied none.
C29_SuppliedTtlKept ==
    [][/\ \A k \in Keys, v \in Storable :
             (isAvailable /\ Set(k, v, FALSE)) => expiry'[k] = defaultTtl
       /\ \A k \in Keys, ttl \in SuppliedTtls :
             (isAvailable /\ SetEx(k, "user", ttl, FALSE)) => expiry'[k] = ttl]_vars

\* C30: a set(k, v2, t2) of the local cache on a key that holds an entry leaves an
\* entry with the value v2 and t2 seconds to live, whatever the value and the time
\* to live of the entry before; get(k) then returns v2.
C30_OverwriteRestartsExpiry ==
    [][\A k \in Keys, v2 \in Values, t2 \in Ttls \ {NoTtl} :
           (localIsAvailable /\ live(cache[k]) /\ LocalSet(k, v2, t2)) =>
               /\ cache'[k] = [v |-> v2, t |-> t2]
               /\ localGet(localIsAvailable', cache'[k]) = v2]_vars

\* C31: an 'error' event of the client while isAvailable is false changes nothing:
\* isAvailable, connectionAttempts and reconnectionTimer keep their values, and no
\* interval, retry timeout or connection attempt is started.
C31_ErrorWhileUnavailable ==
    [][(~isAvailable /\ ClientErrorEvent) => UNCHANGED connVars]_vars

\* the store is unavailable during its bounded retries: no interval is armed, a
\* retry timeout is pending
C31_Witness ==
    /\ ~isAvailable
    /\ ~disconnectCalled
    /\ reconnectionTimer = NoTimer
    /\ PendingRetries > 0
    /\ connectionAttempts > 0

\* C33: in every reachable state connectionAttempts is between 0 and
\* maxConnectionAttempts, also when an interval callback and a pending retry
\* timeout both call connect().
C33_AttemptsWithinBounds ==
    /\ connectionAttempts >= 0
    /\ connectionAttempts <= maxConnectionAttempts

\* after an interval callback has run, the counter is at its maximum while the
\* attempts of two calls of connect() are in flight
C33_Witness ==
    /\ ticked
    /\ connectionAttempts = maxConnectionAttempts
    /\ AttemptsInFlight = 2

\* C34: no connection attempt is started while isAvailable is true: a retry timeout
\* scheduled before the store became available starts none afterwards.
C34_NoAttemptWhileConnected ==
    [][isAvailable => AttemptsInFlight' <= AttemptsInFlight]_vars

\* C35: in every reachable state in which the store is not available and
\* disconnect() has not been called, a connection attempt is in flight, a retry
\* timeout is pending or the reconnection interval is armed.
C35_NoDeadState ==
    (~isAvailable /\ ~disconnectCalled) =>
        \/ AttemptsInFlight > 0
        \/ PendingRetries > 0
        \/ reconnectionTimer # NoTimer

\* the store was available and lost it to a rejected attempt: nothing but the retry
\* timeout of that failure is left to bring it back
C35_Witness ==
    /\ ~isAvailable
    /\ ~disconnectCalled
    /\ ~allFailed
    /\ AttemptsInFlight = 0
    /\ PendingRetries = 1
    /\ reconnectionTimer = NoTimer

\* C32: a lookup that finds no user in the repository returns null and leaves the
\* cache as it was (no set), so that after a createUser with that email the next
\* lookup of the email returns the created user.
C32_NegativeLookupNotCached ==
    \A fg \in BOOLEAN, fs \in BOOLEAN :
        /\ (repo = NoUser /\ ~Hit(isAvailable, ucache[KeyById], fg)) =>
                LET a == getUserById(World, isAvailable, fg, fs)
                IN  a.result = NoUser /\ a.w = World
        /\ \A email \in AllEmails :
               (/\ findByEmail(World, email) = NoUser
                /\ ~Hit(isAvailable, ucache[KeyByEmail(email)], fg)) =>
                   LET a == getUserByEmail(World, isAvailable, email, fg, fs)
                   IN  /\ a.result = NoUser
                       /\ a.w = World
                       /\ email = OtherEmail =>
                             \A fd \in BOOLEAN, fg2 \in BOOLEAN, fs2 \in BOOLEAN :
                                 LET c == createUser(a.w, isAvailable, email, fd)
                                 IN  getUserByEmail(c.w, isAvailable, email, fg2, fs2).result
                                         = c.result

\* C37: once the store is available again, getUserById, getUserByEmail and
\* getAllUsers return what the repository holds, never a value cached before an
\* outage during which the user was updated or deleted.
C37_NoStaleAfterOutage ==
    isAvailable =>
        /\ getUserById(World, isAvailable, FALSE, FALSE).result = repo
        /\ \A email \in AllEmails :
               getUserByEmail(World, isAvailable, email, FALSE, FALSE).result
                   = findByEmail(World, email)
        /\ getAllUsers(World, isAvailable, FALSE, FALSE).result = ListOf(repo, other)

\* C39: after createUser has returned, a getAllUsers on the available cache returns
\* a list with the created user in it, whether or not the list was cached under
\* users:all before.
C39_CreatedUserListed ==
    (isAvailable /\ other) =>
        getAllUsers(World, isAvailable, FALSE, FALSE).result.other = TRUE

\* C36: with the cache available, whenever no getUserById, updateUser or
\* deleteUser is under way, an entry under user:<id> is the user that the
\* repository holds under that id.
C36_CoherentAfterCalls ==
    (calls.reader = Idle /\ calls.writer = Idle) =>
        (ucache[KeyById] # Absent => ucache[KeyById] = repo)

\* C38: no two users of the repository have the same email, whatever the order of
\* the steps of createUser and updateUser.
C38_EmailsUnique ==
    ~(repo # NoUser /\ other /\ repo.email = OtherEmail)

====
